---- MODULE Spec2Model ----
(***************************************************************************)
(* Model of src/src/lib.rs: the two exported functions                     *)
(*     sum(a: i32, b: i32) -> Result<i32>   and   hello() -> String        *)
(* called by several host callers.  A call is two steps: the call binds    *)
(* the arguments to the parameters of a fresh frame, the body computes the *)
(* outcome from the frame and returns it.  log holds the calls that have   *)
(* returned, in the order of their return: what the caller asked for (req) *)
(* and the outcome it was given.                                           *)
(*                                                                         *)
(* i32 values are kept at their width: no operator of the code model ever  *)
(* forms an integer outside [-2^31, 2^31 - 1]; the 32-bit addition is      *)
(* carried out on 16-bit limbs.                                            *)
(***************************************************************************)
EXTENDS Integers, Sequences, FiniteSets

VARIABLES pc, frame, req, log

vars == <<pc, frame, req, log>>

(* ------------------------------ bounds --------------------------------- *)

\* number of host callers that may be inside a call at the same time
NumCallers == 2
\* number of calls issued in one behaviour of Spec
MaxCalls == 3

Callers == 1..NumCallers

(* ------------------------------ i32 ------------------------------------ *)

I32_MAX == 2147483647
I32_MIN == (-I32_MAX) - 1
I32_BITS == 32

\* half a word: 2^16, and the sign bit of the upper half, 2^15
Limb == 2^(I32_BITS \div 2)
LimbSign == Limb \div 2

\* operands of the function-level specification SpecFn
Vals == { I32_MIN, I32_MIN + 1, I32_MIN + 2, -1073741825, -1073741824,
          -65537, -65536, -3, -2, -1, 0, 1, 2, 3, 65535, 65536,
          1073741823, 1073741824, I32_MAX - 2, I32_MAX - 1, I32_MAX }

\* operands of the callers of Spec
CallVals == { I32_MIN, -1, I32_MAX }

(* --------------------------- core::i32 --------------------------------- *)

\* i32::wrapping_add: the low 32 bits of a + b, read as two's complement.
\* lo/hi are the unsigned 16-bit halves of the operands' bit patterns.
wrapping_add(a, b) ==
    LET alo == a % Limb
        ahi == (a \div Limb) % Limb
        blo == b % Limb
        bhi == (b \div Limb) % Limb
        slo == alo + blo
        rlo == slo % Limb
        rhi == (ahi + bhi + (slo \div Limb)) % Limb
        shi == IF rhi >= LimbSign THEN rhi - Limb ELSE rhi
    IN  shi * Limb + rlo

\* variant: the flag is the unsigned carry out of bit 31 (u32 overflow)
overflowing_add_carry(a, b) ==
    LET r == wrapping_add(a, b)
    IN  <<r, (a < 0 /\ b < 0) \/ (((a < 0) # (b < 0)) /\ r >= 0)>>

\* variant: the flag is "the result is below the first operand"
overflowing_add_lt(a, b) ==
    LET r == wrapping_add(a, b)
    IN  <<r, r < a>>

\* variant: the flag is sticky, it stays set once a sum has overflowed
overflowing_add_sticky(a, b) ==
    LET r == wrapping_add(a, b)
    IN  <<r, \/ ((a >= 0) = (b >= 0)) /\ ((r >= 0) # (a >= 0))
             \/ \E i \in 1..Len(log) :
                    log[i].op = "sum" /\ log[i].out.tag = "Err">>

\* variant: the flag is computed from magnitudes, and i32::MIN has none
overflowing_add_abs(a, b) ==
    LET r == wrapping_add(a, b)
    IN  <<r, \/ ((a >= 0) = (b >= 0)) /\ ((r >= 0) # (a >= 0))
             \/ a = I32_MIN
             \/ b = I32_MIN>>

\* i32::overflowing_add: the wrapped sum and the signed-overflow flag
\* (operands of one sign, result of the other).
overflowing_add(a, b) ==
    LET r == wrapping_add(a, b)
    IN  <<r, ((a >= 0) = (b >= 0)) /\ ((r >= 0) # (a >= 0))>>

Some(v) == [some |-> TRUE, val |-> v]
None == [some |-> FALSE]

\* variant: no check, the wrapped sum is returned
checked_add_wrapping(a, b) == Some(overflowing_add(a, b)[1])

\* variant: the bounds themselves count as overflow
checked_add_exclusive(a, b) ==
    LET r == overflowing_add(a, b)
    IN  IF r[2] \/ r[1] = I32_MAX \/ r[1] = I32_MIN THEN None ELSE Some(r[1])

\* variant: the sum saturates at the bounds
checked_add_saturating(a, b) ==
    LET r == overflowing_add(a, b)
    IN  IF r[2] THEN Some(IF a < 0 THEN I32_MIN ELSE I32_MAX) ELSE Some(r[1])

\* i32::checked_add: None on overflow, Some(wrapped sum) otherwise
checked_add(a, b) ==
    LET r == overflowing_add(a, b)
    IN  IF r[2] THEN None ELSE Some(r[1])

(* ------------------------------ lib.rs --------------------------------- *)

OverflowReason == "Integer overflow in sum operation"

Ok(v) == [tag |-> "Ok", val |-> v]
Err(reason) == [tag |-> "Err", reason |-> reason]

\* napi::Error::from_reason
from_reason(reason) == Err(reason)

\* Option::ok_or_else
ok_or_else(opt, err) == IF opt.some THEN Ok(opt.val) ELSE err

\* variant: the message names the direction of the overflow
sum_directional(a, b) ==
    ok_or_else(checked_add(a, b),
               from_reason(IF a < 0 THEN "Integer underflow in sum operation"
                                    ELSE OverflowReason))

\* pub fn sum(a: i32, b: i32) -> Result<i32>
sum(a, b) == ok_or_else(checked_add(a, b), from_reason(OverflowReason))

\* the literal "Hello there", one character at a time
HelloLiteral == <<"H", "e", "l", "l", "o", " ", "t", "h", "e", "r", "e">>

\* str::to_string: a new owned buffer holding a copy of the characters
to_string(s) == [i \in 1..Len(s) |-> s[i]]

\* variant: the greeting is written into a buffer shared with the error
\* message, and is lost once a sum has failed
hello_stale ==
    IF \E i \in 1..Len(log) : log[i].op = "sum" /\ log[i].out.tag = "Err"
    THEN [tag |-> "String", val |-> <<>>]
    ELSE [tag |-> "String", val |-> to_string(HelloLiteral)]

\* pub fn hello() -> String
hello == [tag |-> "String", val |-> to_string(HelloLiteral)]

(* ------------------------------ calls ---------------------------------- *)

NoFrame == [op |-> "none"]

\* variant: the parameters live in one place shared by all callers
BindArgs_shared(c, a, b) ==
    [d \in Callers |-> IF d = c \/ frame[d].op = "sum"
                       THEN [op |-> "sum", a |-> a, b |-> b]
                       ELSE frame[d]]

\* the parameters a, b of caller c's call of sum: each call has its own
BindArgs(c, a, b) == [frame EXCEPT ![c] = [op |-> "sum", a |-> a, b |-> b]]

\* calls issued so far: completed ones and those in progress
Issued == Len(log) + Cardinality({c \in Callers : pc[c] # "idle"})

\* some other caller is inside a call
Overlaps(c) == \E d \in Callers \ {c} : pc[d] # "idle"

\* caller c calls sum(a, b)
CallSum(c, a, b) ==
    /\ pc[c] = "idle"
    /\ Issued < MaxCalls
    /\ pc' = [pc EXCEPT ![c] = "sum"]
    /\ frame' = BindArgs(c, a, b)
    /\ req' = [req EXCEPT ![c] = [op |-> "sum", a |-> a, b |-> b]]
    /\ UNCHANGED log

\* the body of sum runs in caller c's frame and returns
SumBody(c) ==
    /\ pc[c] = "sum"
    /\ log' = Append(log, [op |-> "sum", a |-> req[c].a, b |-> req[c].b,
                           out |-> sum(frame[c].a, frame[c].b),
                           overlap |-> Overlaps(c)])
    /\ pc' = [pc EXCEPT ![c] = "idle"]
    /\ frame' = [frame EXCEPT ![c] = NoFrame]
    /\ req' = [req EXCEPT ![c] = NoFrame]

\* caller c calls hello()
CallHello(c) ==
    /\ pc[c] = "idle"
    /\ Issued < MaxCalls
    /\ pc' = [pc EXCEPT ![c] = "hello"]
    /\ frame' = [frame EXCEPT ![c] = [op |-> "hello"]]
    /\ req' = [req EXCEPT ![c] = [op |-> "hello"]]
    /\ UNCHANGED log

\* the body of hello runs and returns
HelloBody(c) ==
    /\ pc[c] = "hello"
    /\ log' = Append(log, [op |-> "hello", out |-> hello,
                           overlap |-> Overlaps(c)])
    /\ pc' = [pc EXCEPT ![c] = "idle"]
    /\ frame' = [frame EXCEPT ![c] = NoFrame]
    /\ req' = [req EXCEPT ![c] = NoFrame]

\* no call has been made
Init ==
    /\ pc = [c \in Callers |-> "idle"]
    /\ frame = [c \in Callers |-> NoFrame]
    /\ req = [c \in Callers |-> NoFrame]
    /\ log = <<>>

Next ==
    \E c \in Callers :
        \/ \E a \in CallVals, b \in CallVals : CallSum(c, a, b)
        \/ SumBody(c)
        \/ CallHello(c)
        \/ HelloBody(c)

Spec == Init /\ [][Next]_vars

(* -------------------- function-level specification --------------------- *)

\* the calls a caller may have made, for operands a, b
FnCalls(a, b) ==
    { [op |-> "sum", a |-> a, b |-> b],
      [op |-> "sum", a |-> b, b |-> a],
      [op |-> "hello"] }

\* the operands are drawn from Vals and every caller has made one call:
\* sum(a, b), sum(b, a) or hello()
InitFn ==
    \E a \in Vals, b \in Vals :
        \E call \in [Callers -> FnCalls(a, b)] :
            /\ pc = [c \in Callers |-> call[c].op]
            /\ frame = call
            /\ req = call
            /\ log = <<>>

NextFn == \E c \in Callers : SumBody(c) \/ HelloBody(c)

SpecFn == InitFn /\ [][NextFn]_vars

(* ------------------- exact arithmetic for the properties ---------------- *)

\* An integer s in [-2^32, 2^32 - 1] is written [half |-> s \div 2,
\* bit |-> s % 2] (floor division), so that the sum of two i32 values,
\* which needs 33 bits, is formed without loss.
Exact(v) == [half |-> v \div 2, bit |-> v % 2]

\* the mathematical sum a + b
MathSum(a, b) ==
    [half |-> (a \div 2) + (b \div 2) + (((a % 2) + (b % 2)) \div 2),
     bit |-> ((a % 2) + (b % 2)) % 2]

\* s lies in [-2^31, 2^31 - 1]
InI32(s) == s.half >= I32_MIN \div 2 /\ s.half <= I32_MAX \div 2

\* the i32 equal to s, for s in range
ToI32(s) == 2 * s.half + s.bit

\* s reduced mod 2^32 into [-2^31, 2^31 - 1]
Wrap32(s) ==
    LET q == (I32_MAX \div 2) + 1
        h == IF s.half > I32_MAX \div 2 THEN (s.half - q) - q
             ELSE IF s.half < I32_MIN \div 2 THEN (s.half + q) + q
             ELSE s.half
    IN  2 * h + s.bit

\* the returned calls of sum, by position in log
SumCalls == {i \in 1..Len(log) : log[i].op = "sum"}

\* the returned calls of hello
HelloCalls == {i \in 1..Len(log) : log[i].op = "hello"}

\* the mathematical sum of the operands of returned call i
SumOf(i) == MathSum(log[i].a, log[i].b)

Failed(i) == log[i].op = "sum" /\ log[i].out.tag = "Err"

(* ------------------------------ claims ---------------------------------- *)

\* C1: whenever the mathematical sum a + b lies in [-2^31, 2^31 - 1],
\* sum(a, b) succeeds and returns exactly that sum.
C1_InRangeReturnsSum ==
    \A i \in SumCalls :
        InI32(SumOf(i)) => log[i].out = Ok(ToI32(SumOf(i)))

\* sum(2, 3) has returned 5
C1_Witness ==
    \E i \in SumCalls :
        log[i].a = 2 /\ log[i].b = 3 /\ log[i].out = Ok(5)

\* C2: whenever the mathematical sum a + b lies outside [-2^31, 2^31 - 1],
\* above or below, sum(a, b) fails with the overflow error.
C2_OutOfRangeFails ==
    \A i \in SumCalls :
        ~InI32(SumOf(i)) => log[i].out = Err(OverflowReason)

\* sum(2147483647, 1) has failed
C2_Witness ==
    \E i \in SumCalls :
        log[i].a = I32_MAX /\ log[i].b = 1 /\ log[i].out.tag = "Err"

\* C3: an outcome of sum is either a success with a value and nothing else,
\* or the error with the fixed message "Integer overflow in sum operation"
\* and no value; a failed call never yields the wrapped (mod 2^32) sum.
C3_FixedMessageNoValue ==
    \A i \in SumCalls :
        /\ log[i].out.tag \in {"Ok", "Err"}
        /\ log[i].out.tag = "Ok" => DOMAIN log[i].out = {"tag", "val"}
        /\ log[i].out.tag = "Err" =>
              /\ DOMAIN log[i].out = {"tag", "reason"}
              /\ log[i].out.reason = "Integer overflow in sum operation"
        /\ ~InI32(SumOf(i)) => log[i].out # Ok(Wrap32(SumOf(i)))

\* an overflow above and an overflow below have both failed, alike
C3_Witness ==
    \E i \in SumCalls, j \in SumCalls :
        /\ log[i].a = I32_MAX /\ log[i].b = I32_MAX
        /\ log[j].a = I32_MIN /\ log[j].b = -1
        /\ Failed(i) /\ Failed(j)
        /\ log[i].out = log[j].out

\* C4: sum is commutative: sum(a, b) and sum(b, a) have the same outcome,
\* both the same value or both the overflow error.
C4_Commutative ==
    \A i \in SumCalls, j \in SumCalls :
        (log[i].a = log[j].b /\ log[i].b = log[j].a)
            => log[i].out = log[j].out

\* sum(-1, -2147483648) and sum(-2147483648, -1) have both failed
C4_Witness ==
    \E i \in SumCalls, j \in SumCalls :
        /\ log[i].a = -1 /\ log[i].b = I32_MIN
        /\ log[j].a = I32_MIN /\ log[j].b = -1
        /\ Failed(i) /\ Failed(j)

\* C5: every call of hello, whatever calls came before it (failed calls of
\* sum included), returns exactly the 11-character string "Hello there".
C5_HelloConstant ==
    \A i \in HelloCalls :
        /\ log[i].out.tag = "String"
        /\ Len(log[i].out.val) = 11
        /\ log[i].out.val =
              <<"H", "e", "l", "l", "o", " ", "t", "h", "e", "r", "e">>

\* hello has returned before and after a failed sum
C5_Witness ==
    \E i \in HelloCalls, k \in SumCalls, j \in HelloCalls :
        i < k /\ k < j /\ Failed(k)

\* C6: under any interleaving of the callers, each call returns the outcome
\* the function gives for the arguments that caller passed.
C6_ConcurrentSameAsAlone ==
    \A i \in 1..Len(log) :
        IF log[i].op = "sum"
        THEN log[i].out = sum(log[i].a, log[i].b)
        ELSE log[i].out = hello

\* two calls of sum with different arguments and different outcomes have
\* returned, each while another call was in progress
C6_Witness ==
    \E i \in SumCalls, j \in SumCalls :
        /\ log[i].overlap /\ log[j].overlap
        /\ log[i].out.tag = "Ok" /\ log[j].out.tag = "Err"

\* two calls of sum with the same arguments have the same outcome
C7_SameArgsSameOutcome ==
    \A i \in SumCalls, j \in SumCalls :
        (log[i].a = log[j].a /\ log[i].b = log[j].b)
            => log[i].out = log[j].out

\* a call of sum that is left is left in one step, for the idle state, with
\* one outcome given: a success or the error
C7_SingleStep ==
    \A c \in Callers :
        (pc[c] = "sum" /\ pc'[c] # "sum") =>
            /\ pc'[c] = "idle"
            /\ Len(log') = Len(log) + 1
            /\ log'[Len(log')].op = "sum"
            /\ log'[Len(log')].out.tag \in {"Ok", "Err"}
            /\ \A i \in 1..Len(log) : log'[i] = log[i]

\* C7: sum is deterministic and never retried: calls with the same (a, b)
\* give the same outcome whatever was called in between, and every call
\* completes in a single step with a success or the error.
C7_Deterministic == []C7_SameArgsSameOutcome /\ [][C7_SingleStep]_vars

\* the same overflowing pair has failed twice, with a successful call of
\* sum in between
C7_Witness ==
    \E i \in SumCalls, k \in SumCalls, j \in SumCalls :
        /\ i < k /\ k < j
        /\ log[i].a = log[j].a /\ log[i].b = log[j].b
        /\ Failed(i) /\ Failed(j)
        /\ log[k].out.tag = "Ok"

\* C8: the bounds are inclusive: a sum of exactly 2^31 - 1 or -2^31
\* succeeds, a sum of 2^31 or -2^31 - 1 fails, and every value returned on
\* success lies in [-2^31, 2^31 - 1].
C8_InclusiveBounds ==
    \A i \in SumCalls :
        /\ SumOf(i) = Exact(I32_MAX) => log[i].out = Ok(I32_MAX)
        /\ SumOf(i) = Exact(I32_MIN) => log[i].out = Ok(I32_MIN)
        /\ SumOf(i) = [half |-> (I32_MAX \div 2) + 1, bit |-> 0]
              => log[i].out.tag = "Err"
        /\ SumOf(i) = [half |-> (I32_MIN \div 2) - 1, bit |-> 1]
              => log[i].out.tag = "Err"
        /\ log[i].out.tag = "Ok" =>
              log[i].out.val >= I32_MIN /\ log[i].out.val <= I32_MAX

\* sum(2147483646, 1) has returned 2147483647
C8_Witness ==
    \E i \in SumCalls :
        /\ log[i].a = I32_MAX - 1 /\ log[i].b = 1
        /\ log[i].out = Ok(I32_MAX)

\* C9: sum(a, b) fails only when a and b are both strictly positive or both
\* strictly negative; with a zero operand or operands of opposite signs it
\* succeeds, and sum(a, 0) = sum(0, a) = a.
C9_FailsOnlySameSign ==
    \A i \in SumCalls :
        LET a == log[i].a
            b == log[i].b
        IN  /\ log[i].out.tag = "Err" => (a > 0 /\ b > 0) \/ (a < 0 /\ b < 0)
            /\ b = 0 => log[i].out = Ok(a)
            /\ a = 0 => log[i].out = Ok(b)

\* sum(2147483647, -2147483648) has returned -1
C9_Witness ==
    \E i \in SumCalls :
        /\ log[i].a = I32_MAX /\ log[i].b = I32_MIN
        /\ log[i].out = Ok(-1)

\* C10: sum succeeds with value v exactly when the wrapped (mod 2^32) sum
\* equals the mathematical sum, and v is then the wrapped sum; it fails
\* exactly where the wrapped sum differs from the mathematical sum.
C10_AgreesWithWrapping ==
    \A i \in SumCalls :
        LET w == Wrap32(SumOf(i))
        IN  /\ log[i].out.tag = "Ok" <=> Exact(w) = SumOf(i)
            /\ log[i].out.tag = "Err" <=> Exact(w) # SumOf(i)
            /\ log[i].out.tag = "Ok" => log[i].out.val = w

\* sum(2^30, 2^30) has failed: the wrapped sum is -2^31
C10_Witness ==
    \E i \in SumCalls :
        /\ log[i].a = 1073741824 /\ log[i].b = 1073741824
        /\ Wrap32(SumOf(i)) = I32_MIN
        /\ Failed(i)

====
